---- MODULE Spec2Model ----
(***************************************************************************)
(* Model of suzu::sdk::Configuration (sdk/config.hpp) together with the    *)
(* file helpers of sdk/util.hpp it is built on.                            *)
(*                                                                         *)
(* Text (std::string, file bytes, JSON pointers) is a sequence of          *)
(* one-character strings, so that splitting a pointer, parsing a file and  *)
(* dumping a document are computed character by character.  File-system    *)
(* paths are never taken apart by the code and stay opaque strings.        *)
(*                                                                         *)
(* A JSON value (nlohmann::json) is a record [k |-> kind, v |-> payload]:  *)
(* an object's payload is a function from keys (Text) to values, an        *)
(* array's payload a sequence of values.                                   *)
(***************************************************************************)
EXTENDS Integers, Sequences, FiniteSets, TLC

(***************************************************************************)
(* Bounds of the model.                                                    *)
(***************************************************************************)
\* mutating calls (setValue, reset, writeToFile) made on the store in its lifetime
MaxOps == 2

(***************************************************************************)
(* Characters.                                                             *)
(***************************************************************************)
Digits == <<"0", "1", "2", "3", "4", "5", "6", "7", "8", "9">>

IsDigit(c) == \E i \in 1..Len(Digits) : Digits[i] = c

DigitVal(c) == (CHOOSE i \in 1..Len(Digits) : Digits[i] = c) - 1

\* the characters the model uses, in ascending byte order (the order std::map keeps keys in)
ByteOrder ==
    <<"\n", " ", "\"", "*", ",", "-", ".", "/",
      "0", "1", "2", "3", "4", "5", "6", "7", "8", "9", ":", "<", ">", "[", "\\", "]",
      "a", "b", "c", "d", "e", "f", "g", "h", "i", "j", "k", "l", "m",
      "n", "o", "p", "q", "r", "s", "t", "u", "v", "w", "x", "y", "z", "{", "}", "~">>

Code(c) == CHOOSE i \in 1..Len(ByteOrder) : ByteOrder[i] = c

\* std::string operator< : lexicographic comparison of bytes
RECURSIVE TextLess(_, _)
TextLess(a, b) ==
    IF b = <<>> THEN FALSE
    ELSE IF a = <<>> THEN TRUE
    ELSE IF Head(a) # Head(b) THEN Code(Head(a)) < Code(Head(b))
    ELSE TextLess(Tail(a), Tail(b))

(***************************************************************************)
(* JSON values.                                                            *)
(***************************************************************************)
Null == [k |-> "null", v |-> 0]

Discarded == [k |-> "discarded", v |-> 0]

Bool(b) == [k |-> "boolean", v |-> b]

Num(n) == [k |-> "number_integer", v |-> n]

\* an unsigned integer; it compares and serializes as Num does, and is kept
\* apart where the kind of a value is tested
Uns(n) == [k |-> "number_unsigned", v |-> n]

\* a floating-point number, held as a count of halves (Flt(3) is 1.5): such
\* values are exact as float and as double
Flt(h) == [k |-> "number_float", v |-> h]

Str(s) == [k |-> "string", v |-> s]

Obj(f) == [k |-> "object", v |-> f]

Arr(s) == [k |-> "array", v |-> s]

EmptyObject == Obj(<<>>)

EmptyArray == Arr(<<>>)

\* object with member key set to val (std::map insert-or-assign)
ObjPut(f, key, val) == [x \in (DOMAIN f) \cup {key} |-> IF x = key THEN val ELSE f[x]]

\* a discarded value anywhere inside the value
RECURSIVE HasDiscarded(_)
HasDiscarded(j) ==
    CASE j.k = "discarded" -> TRUE
      [] j.k = "object" -> \E x \in DOMAIN j.v : HasDiscarded(j.v[x])
      [] j.k = "array" -> \E i \in 1..Len(j.v) : HasDiscarded(j.v[i])
      [] OTHER -> FALSE

\* nlohmann operator== : values of one kind compare by content, and a comparison
\* in which a discarded value takes part is false
JsonEq(a, b) == ~HasDiscarded(a) /\ ~HasDiscarded(b) /\ a = b

(***************************************************************************)
(* nlohmann::json_pointer: construction from text.                         *)
(***************************************************************************)
\* the reference tokens between the slashes of s, where s is the text after the leading '/'
RECURSIVE SplitTokens(_, _)
SplitTokens(s, cur) ==
    IF s = <<>> THEN <<cur>>
    ELSE IF Head(s) = "/" THEN <<cur>> \o SplitTokens(Tail(s), <<>>)
    ELSE SplitTokens(Tail(s), Append(cur, Head(s)))

\* every '~' of the token is followed by '0' or '1'
WellEscaped(tok) ==
    \A i \in 1..Len(tok) :
        tok[i] = "~" => (i < Len(tok) /\ tok[i + 1] \in {"0", "1"})

\* detail::replace_substring for a two-character pattern
RECURSIVE ReplacePair(_, _, _, _)
ReplacePair(s, c1, c2, r) ==
    IF Len(s) < 2 THEN s
    ELSE IF s[1] = c1 /\ s[2] = c2 THEN <<r>> \o ReplacePair(Tail(Tail(s)), c1, c2, r)
    ELSE <<Head(s)>> \o ReplacePair(Tail(s), c1, c2, r)

\* detail::unescape: "~1" becomes "/", then "~0" becomes "~"
Unescape(tok) == ReplacePair(ReplacePair(tok, "~", "1", "/"), "~", "0", "~")

\* json_pointer(path): ok = FALSE stands for the parse_error the constructor throws
JsonPointer(path) ==
    IF path = <<>> THEN [ok |-> TRUE, toks |-> <<>>]
    ELSE IF Head(path) # "/" THEN [ok |-> FALSE, toks |-> <<>>]
    ELSE LET raw == SplitTokens(Tail(path), <<>>)
         IN IF \A i \in 1..Len(raw) : WellEscaped(raw[i])
            THEN [ok |-> TRUE, toks |-> [i \in 1..Len(raw) |-> Unescape(raw[i])]]
            ELSE [ok |-> FALSE, toks |-> <<>>]

(***************************************************************************)
(* nlohmann::json_pointer: array indices.                                  *)
(***************************************************************************)
\* no token is taken for an array index
AllDigits_Never(tok) == FALSE

AllDigits(tok) == \A i \in 1..Len(tok) : IsDigit(tok[i])

\* json_pointer::array_index returns instead of throwing
ValidIndex(tok) ==
    /\ tok # <<>>
    /\ AllDigits(tok)
    /\ (Len(tok) > 1 => tok[1] # "0")

RECURSIVE ToNumber(_, _)
ToNumber(tok, acc) ==
    IF tok = <<>> THEN acc ELSE ToNumber(Tail(tok), 10 * acc + DigitVal(Head(tok)))

\* json_pointer::array_index, for a token it accepts
ArrayIndex(tok) == ToNumber(tok, 0)

(***************************************************************************)
(* nlohmann::json_pointer: lookup and insertion.                           *)
(***************************************************************************)
\* json_pointer::contains
RECURSIVE Contains(_, _)
Contains(node, toks) ==
    IF toks = <<>> THEN TRUE
    ELSE LET t == Head(toks)
         IN CASE node.k = "object" ->
                    t \in DOMAIN node.v /\ Contains(node.v[t], Tail(toks))
              [] node.k = "array" ->
                    /\ t # <<"-">>
                    /\ Len(t) = 1 => IsDigit(t[1])
                    /\ Len(t) > 1 =>
                          /\ IsDigit(t[1]) /\ t[1] # "0"
                          /\ \A i \in 2..Len(t) : IsDigit(t[i])
                    \* array_index throws for the empty token; the caller's
                    \* handler answers as it does for false
                    /\ ValidIndex(t)
                    /\ ArrayIndex(t) < Len(node.v)
                    /\ Contains(node.v[ArrayIndex(t) + 1], Tail(toks))
              [] OTHER -> FALSE

\* json_pointer::get_unchecked const, called once contains has answered true
RECURSIVE GetUnchecked(_, _)
GetUnchecked(node, toks) ==
    IF toks = <<>> THEN node
    ELSE IF node.k = "object" THEN GetUnchecked(node.v[Head(toks)], Tail(toks))
    ELSE GetUnchecked(node.v[ArrayIndex(Head(toks)) + 1], Tail(toks))

\* std::vector resize(n) filling with null, for n at least the length
PadTo(s, n) == [i \in 1..n |-> IF i <= Len(s) THEN s[i] ELSE Null]

\* json_pointer::get_unchecked non-const followed by the assignment of val:
\* ok = FALSE stands for the exception it throws, doc is the node as the walk
\* left it (nodes created before the throw stay)
RECURSIVE AssignAt(_, _, _)
AssignAt(node, toks, val) ==
    IF toks = <<>> THEN [ok |-> TRUE, doc |-> val]
    ELSE LET t == Head(toks)
             cur == IF node.k = "null"
                    THEN (IF AllDigits(t) \/ t = <<"-">> THEN EmptyArray ELSE EmptyObject)
                    ELSE node
         IN CASE cur.k = "object" ->
                    LET child == IF t \in DOMAIN cur.v THEN cur.v[t] ELSE Null
                        r == AssignAt(child, Tail(toks), val)
                    IN [ok |-> r.ok, doc |-> Obj(ObjPut(cur.v, t, r.doc))]
              [] cur.k = "array" ->
                    IF t = <<"-">>
                    THEN LET r == AssignAt(Null, Tail(toks), val)
                         IN [ok |-> r.ok, doc |-> Arr(Append(cur.v, r.doc))]
                    ELSE IF ~ValidIndex(t) THEN [ok |-> FALSE, doc |-> cur]
                    ELSE LET i == ArrayIndex(t) + 1
                             grown == IF i > Len(cur.v) THEN PadTo(cur.v, i) ELSE cur.v
                             r == AssignAt(grown[i], Tail(toks), val)
                         IN [ok |-> r.ok, doc |-> Arr([grown EXCEPT ![i] = r.doc])]
              [] OTHER -> [ok |-> FALSE, doc |-> cur]

(***************************************************************************)
(* nlohmann::json::dump.                                                   *)
(***************************************************************************)
RECURSIVE NatText(_)
NatText(n) == IF n < 10 THEN <<Digits[n + 1]>> ELSE NatText(n \div 10) \o <<Digits[(n % 10) + 1]>>

IntText(n) == IF n < 0 THEN <<"-">> \o NatText(-n) ELSE NatText(n)

\* serializer::dump_escaped, for the characters of the model
RECURSIVE Escaped(_)
Escaped(s) ==
    IF s = <<>> THEN <<>>
    ELSE (CASE Head(s) = "\"" -> <<"\\", "\"">>
            [] Head(s) = "\\" -> <<"\\", "\\">>
            [] Head(s) = "\n" -> <<"\\", "n">>
            [] OTHER -> <<Head(s)>>) \o Escaped(Tail(s))

Quoted(s) == <<"\"">> \o Escaped(s) \o <<"\"">>

Spaces(n) == [i \in 1..n |-> " "]

\* the keys of an object in the order std::map iterates them
RECURSIVE SortedKeys(_)
SortedKeys(keys) ==
    IF keys = {} THEN <<>>
    ELSE LET first == CHOOSE x \in keys : \A y \in keys \ {x} : TextLess(x, y)
         IN <<first>> \o SortedKeys(keys \ {first})

\* the parts one after the other, sep between two of them
RECURSIVE Joined(_, _)
Joined(parts, sep) ==
    IF parts = <<>> THEN <<>>
    ELSE IF Len(parts) = 1 THEN parts[1]
    ELSE parts[1] \o sep \o Joined(Tail(parts), sep)

\* serializer::dump(val, pretty_print, ensure_ascii, indent_step, current_indent)
RECURSIVE DumpValue(_, _, _, _)
DumpValue(j, pretty, step, indent) ==
    LET inner == indent + step
        sep == IF pretty THEN <<",", "\n">> ELSE <<",">>
        open(c) == IF pretty THEN <<c, "\n">> ELSE <<c>>
        close(c) == IF pretty THEN <<"\n">> \o Spaces(indent) \o <<c>> ELSE <<c>>
        lead == IF pretty THEN Spaces(inner) ELSE <<>>
        colon == IF pretty THEN <<":", " ">> ELSE <<":">>
        Member(key) == lead \o Quoted(key) \o colon \o DumpValue(j.v[key], pretty, step, inner)
        Element(i) == lead \o DumpValue(j.v[i], pretty, step, inner)
    IN CASE j.k = "object" ->
                IF DOMAIN j.v = {} THEN <<"{", "}">>
                ELSE LET keys == SortedKeys(DOMAIN j.v)
                     IN open("{") \o Joined([i \in 1..Len(keys) |-> Member(keys[i])], sep) \o close("}")
         [] j.k = "array" ->
                IF Len(j.v) = 0 THEN <<"[", "]">>
                ELSE open("[") \o Joined([i \in 1..Len(j.v) |-> Element(i)], sep) \o close("]")
         [] j.k = "string" -> Quoted(j.v)
         [] j.k = "boolean" -> IF j.v THEN <<"t", "r", "u", "e">> ELSE <<"f", "a", "l", "s", "e">>
         [] j.k = "number_integer" -> IntText(j.v)
         [] j.k = "discarded" -> <<"<", "d", "i", "s", "c", "a", "r", "d", "e", "d", ">">>
         [] OTHER -> <<"n", "u", "l", "l">>

\* basic_json::dump(indent): a negative indent selects the compact form
Dump(j, indent) == DumpValue(j, indent >= 0, IF indent >= 0 THEN indent ELSE 0, 0)

(***************************************************************************)
(* nlohmann::json::parse(text, nullptr, false, true): no exceptions,       *)
(* comments ignored.  The model reads texts made of objects, arrays,       *)
(* strings with the escapes \" and \\, integers and the three literals;    *)
(* fractions, exponents and other escapes are not in the texts it reads.   *)
(* A result is [ok, val, pos], pos the index after what was read.          *)
(***************************************************************************)
ParseFail == [ok |-> FALSE, val |-> Discarded, pos |-> 0]

IsSpace(c) == c \in {" ", "\n"}

\* index of the first character at or after i that follows the comment end mark
RECURSIVE AfterLine(_, _)
AfterLine(s, i) == IF i > Len(s) \/ s[i] = "\n" THEN i ELSE AfterLine(s, i + 1)

\* 0 when the comment is not closed
RECURSIVE AfterBlock(_, _)
AfterBlock(s, i) ==
    IF i + 1 > Len(s) THEN 0
    ELSE IF s[i] = "*" /\ s[i + 1] = "/" THEN i + 2
    ELSE AfterBlock(s, i + 1)

\* lexer::skip_whitespace and scan_comment: the index of the next token, 0 for
\* a malformed comment
RECURSIVE SkipBlank(_, _)
SkipBlank(s, i) ==
    IF i > Len(s) THEN i
    ELSE IF IsSpace(s[i]) THEN SkipBlank(s, i + 1)
    ELSE IF s[i] = "/"
         THEN IF i + 1 <= Len(s) /\ s[i + 1] = "/" THEN SkipBlank(s, AfterLine(s, i + 2))
              ELSE IF i + 1 <= Len(s) /\ s[i + 1] = "*"
                   THEN LET e == AfterBlock(s, i + 2)
                        IN IF e = 0 THEN 0 ELSE SkipBlank(s, e)
                   ELSE 0
    ELSE i

\* lexer::scan_string from the character after the opening quote
RECURSIVE ScanString(_, _, _)
ScanString(s, i, acc) ==
    IF i > Len(s) THEN ParseFail
    ELSE IF s[i] = "\"" THEN [ok |-> TRUE, val |-> Str(acc), pos |-> i + 1]
    ELSE IF s[i] = "\\"
         THEN IF i + 1 <= Len(s) /\ s[i + 1] \in {"\"", "\\"}
              THEN ScanString(s, i + 2, Append(acc, s[i + 1]))
              ELSE ParseFail
    ELSE IF s[i] = "\n" THEN ParseFail
    ELSE ScanString(s, i + 1, Append(acc, s[i]))

\* index after the run of digits starting at i
RECURSIVE AfterDigits(_, _)
AfterDigits(s, i) == IF i <= Len(s) /\ IsDigit(s[i]) THEN AfterDigits(s, i + 1) ELSE i

\* lexer::scan_number for integers: '-'? ('0' | [1-9][0-9]*)
ScanNumber(s, i) ==
    LET neg == s[i] = "-"
        d == IF neg THEN i + 1 ELSE i
        e == IF d <= Len(s) /\ s[d] = "0" THEN d + 1 ELSE AfterDigits(s, d)
    IN IF e = d THEN ParseFail
       ELSE LET n == ToNumber(SubSeq(s, d, e - 1), 0)
            IN [ok |-> TRUE, val |-> Num(IF neg THEN -n ELSE n), pos |-> e]

\* lexer::scan_literal
ScanLiteral(s, i, word, val) ==
    IF i + Len(word) - 1 <= Len(s) /\ SubSeq(s, i, i + Len(word) - 1) = word
    THEN [ok |-> TRUE, val |-> val, pos |-> i + Len(word)]
    ELSE ParseFail

RECURSIVE ParseValue(_, _), ParseMembers(_, _, _), ParseElements(_, _, _)

\* after a member's value: e is the index of the next token, now the members so far
MemberEnd(s, e, now) ==
    IF e = 0 \/ e > Len(s) THEN ParseFail
    ELSE CASE s[e] = "," -> ParseMembers(s, e + 1, now)
           [] s[e] = "}" -> [ok |-> TRUE, val |-> Obj(now), pos |-> e + 1]
           [] OTHER -> ParseFail

\* a member's value was read as val (the later of two equal keys wins)
MemberValue(s, key, val, acc) ==
    IF ~val.ok THEN ParseFail
    ELSE MemberEnd(s, SkipBlank(s, val.pos), ObjPut(acc, key.v, val.val))

\* a member's key was read; c is the index of the token after it
MemberColon(s, key, c, acc) ==
    IF c = 0 \/ c > Len(s) \/ s[c] # ":" THEN ParseFail
    ELSE MemberValue(s, key, ParseValue(s, c + 1), acc)

MemberKey(s, key, acc) ==
    IF ~key.ok THEN ParseFail ELSE MemberColon(s, key.val, SkipBlank(s, key.pos), acc)

\* a member is expected at the token with index j
MemberAt(s, j, acc) ==
    IF j = 0 \/ j > Len(s) \/ s[j] # "\"" THEN ParseFail
    ELSE MemberKey(s, ScanString(s, j + 1, <<>>), acc)

\* the members of an object from index i on, acc the members read so far
ParseMembers(s, i, acc) == MemberAt(s, SkipBlank(s, i), acc)

\* after an element: e is the index of the next token, now the elements so far
ElementEnd(s, e, now) ==
    IF e = 0 \/ e > Len(s) THEN ParseFail
    ELSE CASE s[e] = "," -> ParseElements(s, e + 1, now)
           [] s[e] = "]" -> [ok |-> TRUE, val |-> Arr(now), pos |-> e + 1]
           [] OTHER -> ParseFail

ElementValue(s, val, acc) ==
    IF ~val.ok THEN ParseFail ELSE ElementEnd(s, SkipBlank(s, val.pos), Append(acc, val.val))

\* the elements of an array from index i on, acc the elements read so far
ParseElements(s, i, acc) == ElementValue(s, ParseValue(s, i), acc)

\* after '{' at index i - 1: n is the index of the next token
ObjectAt(s, i, n) ==
    IF n # 0 /\ n <= Len(s) /\ s[n] = "}"
    THEN [ok |-> TRUE, val |-> EmptyObject, pos |-> n + 1]
    ELSE ParseMembers(s, i, <<>>)

\* after '[' at index i - 1: n is the index of the next token
ArrayAt(s, i, n) ==
    IF n # 0 /\ n <= Len(s) /\ s[n] = "]"
    THEN [ok |-> TRUE, val |-> EmptyArray, pos |-> n + 1]
    ELSE ParseElements(s, i, <<>>)

\* a value is expected at the token with index j
ValueAt(s, j) ==
    IF j = 0 \/ j > Len(s) THEN ParseFail
    ELSE CASE s[j] = "{" -> ObjectAt(s, j + 1, SkipBlank(s, j + 1))
           [] s[j] = "[" -> ArrayAt(s, j + 1, SkipBlank(s, j + 1))
           [] s[j] = "\"" -> ScanString(s, j + 1, <<>>)
           [] s[j] = "-" \/ IsDigit(s[j]) -> ScanNumber(s, j)
           [] s[j] = "t" -> ScanLiteral(s, j, <<"t", "r", "u", "e">>, Bool(TRUE))
           [] s[j] = "f" -> ScanLiteral(s, j, <<"f", "a", "l", "s", "e">>, Bool(FALSE))
           [] s[j] = "n" -> ScanLiteral(s, j, <<"n", "u", "l", "l">>, Null)
           [] OTHER -> ParseFail

\* parser::sax_parse_internal: one value starting at or after i
ParseValue(s, i) == ValueAt(s, SkipBlank(s, i))

\* the input must end after the value: e is the index of the next token
ParseEnd(s, r, e) == IF e = Len(s) + 1 THEN r.val ELSE Discarded

ParseResult(s, r) == IF ~r.ok THEN Discarded ELSE ParseEnd(s, r, SkipBlank(s, r.pos))

\* basic_json::parse with allow_exceptions = false: the value, or discarded when
\* the text is no JSON value followed by the end of the input
Parse(s) == ParseResult(s, ParseValue(s, 1))

(***************************************************************************)
(* The store, the files it reads and writes, and the calls made on it.     *)
(***************************************************************************)
VARIABLES
    alive,        \* "none" before a store is constructed, "live", "dead" once destroyed
    m_dict,       \* raw JSON key-value store
    m_path,       \* (optional) file path, "" when there is none
    m_isOk,       \* whether or not the config state is normal
    m_writeOnDel, \* whether or not to flush the file when the object is deleted
    files,        \* the file system: name -> [exists, data]
    last,         \* the last call made: its arguments and what it returned
    nops,         \* calls made so far that count against the bound
    m_lock,       \* synchronization object: who holds it and who waits for it
    pc,           \* per thread: the place in the method it is executing
    frame,        \* per thread: arguments and locals of its call, and what it returned
    versions,     \* the document and flag as every write left them, oldest first
    app           \* the application owning the store as its global configuration

vars ==
    <<alive, m_dict, m_path, m_isOk, m_writeOnDel, files, last, nops,
      m_lock, pc, frame, versions, app>>

\* what belongs to the threads sharing the store
threads == <<m_lock, pc, frame, versions>>

store == <<m_dict, m_path, m_isOk, m_writeOnDel>>

\* a char const * argument that is the null pointer
nullptr == "nullptr"

\* the byte '\0'
Nul == "NUL"

\* the files that can be opened; a stream on any other name fails
FileNames == {"cfg.json", "out.json"}

NoFile == [exists |-> FALSE, data |-> <<>>]

File(text) == [exists |-> TRUE, data |-> text]

(***************************************************************************)
(* m_lock: a QReadWriteLock in recursive mode.                             *)
(***************************************************************************)
\* the threads that share the store once it is constructed
Threads == {"t1", "t2", "t3"}

\* held by nobody: no writer, no reader, nobody waiting to write
Unlocked == [writer |-> "none", readers |-> [t \in Threads |-> 0], waiting |-> {}]

\* lockForRead of a lock that is not recursive: a thread that already reads
\* queues behind a waiting writer like any other
CanLockForRead_NonRecursive(t) == m_lock.writer = "none" /\ m_lock.waiting = {}

\* lockForRead granted to one reader at a time
CanLockForRead_Exclusive(t) ==
    \/ m_lock.readers[t] > 0
    \/ /\ m_lock.writer = "none" /\ m_lock.waiting = {}
       /\ \A u \in Threads : m_lock.readers[u] = 0

\* lockForRead returns at once: the thread already reads (recursion), or nobody
\* writes and nobody waits to write
CanLockForRead(t) ==
    \/ m_lock.readers[t] > 0
    \/ m_lock.writer = "none" /\ m_lock.waiting = {}

LockedForRead(t) == [m_lock EXCEPT !.readers[t] = @ + 1]

\* lockForWrite granted although other threads read
CanLockForWrite_IgnoresReaders(t) == m_lock.writer = "none"

\* lockForWrite returns at once: nobody writes and nobody reads
CanLockForWrite(t) ==
    m_lock.writer = "none" /\ \A u \in Threads : m_lock.readers[u] = 0

LockedForWrite(t) == [m_lock EXCEPT !.writer = t, !.waiting = @ \ {t}]

\* lockForWrite blocks: the thread is counted among the waiting writers
WaitingForWrite(t) == [m_lock EXCEPT !.waiting = @ \cup {t}]

\* unlock, as the destructor of a QReadLocker or QWriteLocker calls it
UnlockedBy(t) ==
    IF m_lock.writer = t
    THEN [m_lock EXCEPT !.writer = "none"]
    ELSE [m_lock EXCEPT !.readers[t] = @ - 1]

(***************************************************************************)
(* sdk/util.hpp.                                                           *)
(***************************************************************************)
\* util::ReadFile(path, result, binary): fault is an exception thrown while
\* the stream is read into the buffer
ReadFile(path, binary, fault) ==
    IF path = nullptr THEN [code |-> "InvalidParameter", result |-> <<>>]
    ELSE IF path \notin FileNames \/ ~files[path].exists
         THEN [code |-> "OpenFile", result |-> <<>>]
    ELSE IF fault THEN [code |-> "ReadFile", result |-> <<>>]
    ELSE [code |-> "Ok",
          result |-> IF binary THEN files[path].data ELSE Append(files[path].data, Nul)]

\* util::WriteFile(path, data, len, binary, append): the code it returns and the
\* file system it leaves; fault is an exception thrown by the write, after the
\* stream was opened (and the file created or truncated by it)
WriteFile(path, data, len, binary, append, fault) ==
    \* data is the c_str() of a std::string, never the null pointer
    IF path = nullptr THEN [code |-> "InvalidParameter", files |-> files]
    ELSE IF len = 0 THEN [code |-> "NoOperation", files |-> files]
    ELSE IF path \notin FileNames THEN [code |-> "OpenFile", files |-> files]
    ELSE LET kept == IF append THEN files[path].data ELSE <<>>
         IN IF fault
            THEN [code |-> "WriteFile", files |-> [files EXCEPT ![path] = File(kept)]]
            ELSE [code |-> "Ok",
                  files |-> [files EXCEPT ![path] = File(kept \o SubSeq(data, 1, len))]]

\* the C string a char pointer into the buffer denotes: the bytes before the first '\0'
RECURSIVE CString(_)
CString(buf) ==
    IF buf = <<>> \/ Head(buf) = Nul THEN <<>> ELSE <<Head(buf)>> \o CString(Tail(buf))

(***************************************************************************)
(* sdk/config.hpp: suzu::sdk::Configuration.                               *)
(***************************************************************************)
\* the value getValue returns on error
gl_discval == Parse(<<"{">>)

\* the text writeToString returns on error
gl_emptydoc == <<"{", "}">>

\* indentation of the pretty form
PrettyIndent == 4

\* reset without the assignment to m_isOk
reset_KeepsFlag == [m_dict |-> Parse(<<"{", "}">>), m_isOk |-> m_isOk]

\* Configuration::reset: the document and the flag it leaves
reset == [m_dict |-> Parse(<<"{", "}">>), m_isOk |-> TRUE]

\* the constructor without the reset of a discarded document
Configuration_NoReset(path, writedest, fault) ==
    LET init == [m_dict |-> Null, m_path |-> "", m_isOk |-> TRUE, m_writeOnDel |-> writedest]
    IN IF path = nullptr THEN init
       ELSE IF fault = "path" THEN [init EXCEPT !.m_isOk = FALSE]
       ELSE LET named == [init EXCEPT !.m_path = path]
                rd == ReadFile(path, FALSE, fault = "io")
            IN IF rd.code # "Ok" THEN named
               ELSE IF fault = "parse" THEN [named EXCEPT !.m_isOk = FALSE]
               ELSE [named EXCEPT !.m_dict = Parse(CString(rd.result))]

\* the constructor with a handler that leaves m_isOk as it is
Configuration_SilentCatch(path, writedest, fault) ==
    LET init == [m_dict |-> Null, m_path |-> "", m_isOk |-> TRUE, m_writeOnDel |-> writedest]
    IN IF path = nullptr THEN init
       ELSE IF fault = "path" THEN init
       ELSE LET named == [init EXCEPT !.m_path = path]
                rd == ReadFile(path, FALSE, fault = "io")
            IN IF rd.code # "Ok" THEN named
               ELSE IF fault = "parse" THEN named
               ELSE LET parsed == Parse(CString(rd.result))
                    IN IF parsed.k = "discarded"
                       THEN [named EXCEPT !.m_dict = reset.m_dict, !.m_isOk = reset.m_isOk]
                       ELSE [named EXCEPT !.m_dict = parsed]

\* Configuration::Configuration(path, writedest): the fields it leaves.  fault
\* names the step that throws: "path" the copy of the file name, "io" the read
\* inside ReadFile, "parse" JSON::parse; "none" when nothing throws
Configuration(path, writedest, fault) ==
    LET init == [m_dict |-> Null, m_path |-> "", m_isOk |-> TRUE, m_writeOnDel |-> writedest]
    IN IF path = nullptr THEN init
       ELSE IF fault = "path" THEN [init EXCEPT !.m_isOk = FALSE]
       ELSE LET named == [init EXCEPT !.m_path = path]
                rd == ReadFile(path, FALSE, fault = "io")
            IN IF rd.code # "Ok" THEN named
               ELSE IF fault = "parse" THEN [named EXCEPT !.m_isOk = FALSE]
               ELSE LET parsed == Parse(CString(rd.result))
                    IN IF parsed.k = "discarded"
                       THEN [named EXCEPT !.m_dict = reset.m_dict, !.m_isOk = reset.m_isOk]
                       ELSE [named EXCEPT !.m_dict = parsed]

\* Configuration::isOk
isOk == m_isOk

\* getValue returning the whole document instead of the node the pointer names
getValue_WholeDocument(path) ==
    LET ptr == JsonPointer(path)
    IN IF ~ptr.ok THEN gl_discval
       ELSE IF ~m_isOk \/ ~Contains(m_dict, ptr.toks) THEN gl_discval
       ELSE m_dict

\* getValue without the test of m_isOk
getValue_NoHealthCheck(path) ==
    LET ptr == JsonPointer(path)
    IN IF ~ptr.ok THEN gl_discval
       ELSE IF ~Contains(m_dict, ptr.toks) THEN gl_discval
       ELSE GetUnchecked(m_dict, ptr.toks)

\* Configuration::getValue
getValue(path) ==
    LET ptr == JsonPointer(path)
    IN IF ~ptr.ok THEN gl_discval
       ELSE IF ~m_isOk \/ ~Contains(m_dict, ptr.toks) THEN gl_discval
       ELSE GetUnchecked(m_dict, ptr.toks)

\* m_dict[ptr] = val inside setValue
AssignPointer(ptr, val) ==
    IF ~ptr.ok THEN [m_dict |-> m_dict, caught |-> TRUE]
    ELSE [m_dict |-> AssignAt(m_dict, ptr.toks, val).doc,
          caught |-> ~AssignAt(m_dict, ptr.toks, val).ok]

\* Configuration::setValue: the document it leaves, and whether an exception
\* reached its handler
setValue(path, val) ==
    IF ~m_isOk THEN [m_dict |-> m_dict, caught |-> FALSE]
    ELSE AssignPointer(JsonPointer(path), val)

\* writeToString without the test of m_isOk
writeToString_NoHealthCheck(pretty) == Dump(m_dict, IF pretty THEN PrettyIndent ELSE -1)

\* Configuration::writeToString
writeToString(pretty) ==
    IF ~m_isOk THEN gl_emptydoc ELSE Dump(m_dict, IF pretty THEN PrettyIndent ELSE -1)

\* writeToFile serializing with writeToString's default argument, pretty = true
writeToFile_Pretty(path, append, fault) ==
    IF path = nullptr THEN [code |-> "InvalidParameter", files |-> files]
    ELSE IF ~m_isOk THEN [code |-> "InvalidState", files |-> files]
    ELSE WriteFile(path, writeToString(TRUE), Len(writeToString(TRUE)), FALSE, FALSE, fault)

\* Configuration::writeToFile(path, append): the code it returns and the file
\* system it leaves; fault as for WriteFile
writeToFile(path, append, fault) ==
    IF path = nullptr THEN [code |-> "InvalidParameter", files |-> files]
    ELSE IF ~m_isOk THEN [code |-> "InvalidState", files |-> files]
    ELSE LET serjson == writeToString(FALSE)
         IN WriteFile(IF path = nullptr THEN m_path ELSE path,
                      serjson, Len(serjson), FALSE, FALSE, fault)

\* the destructor without the test of m_writeOnDel
Destructor_IgnoresFlag(fault) ==
    IF m_path # "" THEN writeToFile(m_path, FALSE, fault).files ELSE files

\* a destructor that keeps the file when the document holds nothing
Destructor_SkipsEmpty(fault) ==
    IF m_writeOnDel /\ m_path # "" /\ m_dict \notin {Null, EmptyObject}
    THEN writeToFile(m_path, FALSE, fault).files
    ELSE files

\* Configuration::~Configuration: the file system it leaves
Destructor(fault) ==
    IF m_writeOnDel /\ m_path # "" THEN writeToFile(m_path, FALSE, fault).files ELSE files

(***************************************************************************)
(* sdk/config.hpp: suzu::sdk::JSONValueConverter.                          *)
(***************************************************************************)
\* a value of the C++ type t; an integer of the model lies in the range of
\* int32_t, so that get<int32_t> and get<int64_t> keep it as it is
Host(t, v) == [t |-> t, v |-> v]

is_number_integer(val) == val.k \in {"number_integer", "number_unsigned"}

is_number_float(val) == val.k = "number_float"

is_number(val) == is_number_integer(val) \/ is_number_float(val)

is_string(val) == val.k = "string"

\* val.get<T>() for a number: a floating value loses its fraction when read as
\* an integer (truncation toward zero), an integer read as floating is exact
GetNumber(TargetVal, val) ==
    IF TargetVal \in {"int32_t", "int64_t"}
    THEN IF is_number_float(val)
         THEN Host(TargetVal, IF val.v >= 0 THEN val.v \div 2 ELSE -((-val.v) \div 2))
         ELSE Host(TargetVal, val.v)
    ELSE IF is_number_float(val) THEN Host(TargetVal, val.v) ELSE Host(TargetVal, 2 * val.v)

\* the integer targets accepting every number
to_AnyNumber(TargetVal, val, fallback) ==
    CASE TargetVal \in {"int32_t", "int64_t"} ->
            IF ~is_number(val) THEN fallback ELSE GetNumber(TargetVal, val)
      [] TargetVal \in {"float", "double"} ->
            IF ~is_number_float(val) THEN fallback ELSE GetNumber(TargetVal, val)
      [] TargetVal = "std::string" ->
            IF ~is_string(val) THEN fallback ELSE Host(TargetVal, val.v)

\* JSONValueConverter::to<TargetVal>(val, fallback), its five specializations
to(TargetVal, val, fallback) ==
    CASE TargetVal \in {"int32_t", "int64_t"} ->
            IF ~is_number_integer(val) THEN fallback ELSE GetNumber(TargetVal, val)
      [] TargetVal \in {"float", "double"} ->
            IF ~is_number_float(val) THEN fallback ELSE GetNumber(TargetVal, val)
      [] TargetVal = "std::string" ->
            IF ~is_string(val) THEN fallback ELSE Host(TargetVal, val.v)

\* JSONValueConverter::from<SourceVal>(val), its six specializations
from(val) ==
    CASE val.t \in {"int32_t", "int64_t"} -> Num(val.v)
      [] val.t \in {"float", "double"} -> Flt(val.v)
      [] val.t \in {"char const *", "std::string"} -> Str(val.v)

(***************************************************************************)
(* The inputs the model draws from.                                        *)
(***************************************************************************)
\* JSON pointers handed to getValue and setValue: "", "/a", "/a/b", "/a/0",
\* "/a/-", "/logfile" and the malformed "a"
Pointers ==
    { <<>>, <<"/", "a">>, <<"/", "a", "/", "b">>, <<"/", "a", "/", "0">>,
      <<"/", "a", "/", "-">>, <<"/", "l", "o", "g", "f", "i", "l", "e">>, <<"a">> }

\* values handed to setValue: 1, "log.txt" and a discarded value
Values == {Num(1), Str(<<"l", "o", "g", ".", "t", "x", "t">>), Discarded}

\* file names handed to the constructor
CtorPaths == {nullptr, "", "cfg.json"}

\* file names handed to writeToFile
WritePaths == {nullptr, "", "cfg.json", "out.json"}

Faults == {"none", "path", "io", "parse"}

\* what cfg.json holds at the start: nothing, {"a":[0]} or the malformed {
ConfigTexts == {<<"{", "\"", "a", "\"", ":", "[", "0", "]", "}">>, <<"{">>}

InitialFiles ==
    {[n \in FileNames |-> IF n = "cfg.json" THEN c ELSE o] :
        c \in {NoFile} \cup {File(t) : t \in ConfigTexts},
        o \in {File(<<"x">>)}}

\* the types to<TargetVal> is specialized for
TargetTypes == {"int32_t", "int64_t", "float", "double", "std::string"}

\* the types from<SourceVal> is specialized for
SourceTypes == TargetTypes \cup {"char const *"}

\* values of the C++ type t handed to the converter: -1 and 0 (-0.5 and 0.0 for
\* the floating types), "" and "7" for the string types
HostValues(t) ==
    IF t \in {"std::string", "char const *"}
    THEN {Host(t, <<>>), Host(t, <<"7">>)}
    ELSE {Host(t, -1), Host(t, 0)}

\* JSON values handed to the converter, one or more of every kind
ConvertValues ==
    { Null, Discarded, Bool(TRUE), Num(-7), Uns(7), Flt(3), Flt(4), Str(<<"x">>),
      Str(<<"7">>), EmptyObject, Arr(<<Num(1)>>) }

NoCall ==
    [op |-> "none", healthy |-> TRUE, ptr |-> <<>>, val |-> Null, file |-> nullptr,
     flag |-> FALSE, fault |-> "none", caught |-> FALSE, value |-> Null, ok |-> FALSE,
     code |-> "Ok", text |-> <<>>, target |-> "none", fallback |-> Null, result |-> Null]

\* getValue handing out a reference to the node instead of a copy
Returned_Reference(ptr, v) == [ref |-> TRUE, ptr |-> ptr, v |-> v]

\* a JSON object handed to a caller: a copy of its own (get<JSON>() builds a new
\* value), or a reference to the node of m_dict that ptr names
Returned(ptr, v) == [ref |-> FALSE, ptr |-> <<>>, v |-> v]

\* the value a caller finds in an object it was handed
Deref(r) ==
    IF ~r.ref THEN r.v
    ELSE IF Contains(m_dict, JsonPointer(r.ptr).toks)
         THEN GetUnchecked(m_dict, JsonPointer(r.ptr).toks)
         ELSE Discarded

\* a thread that is in no call and has made none
NoFrame ==
    [op |-> "none", path |-> <<>>, val |-> Null, file |-> nullptr, pretty |-> FALSE,
     value |-> [ref |-> FALSE, ptr |-> <<>>, v |-> Null], seen |-> Null,
     edited |-> FALSE, text |-> <<>>, code |-> "Ok"]

\* main has not constructed the application yet: pc is the place main is at,
\* quitNow and loopCode what QCoreApplication::exit left, m_wnd the main
\* window, status what main returned
NoApp ==
    [pc |-> "main", quitNow |-> FALSE, loopCode |-> "none", m_wnd |-> nullptr,
     loggers |-> FALSE, status |-> "none"]

\* no thread is in a call
ThreadsIdle ==
    /\ m_lock = Unlocked
    /\ pc = [t \in Threads |-> "idle"]
    /\ frame = [t \in Threads |-> NoFrame]
    /\ versions = <<>>

\* the record of a call made now: healthy is the flag as the call found it
Call(op) == [NoCall EXCEPT !.op = op, !.healthy = m_isOk]

\* the step of the constructor an exception is thrown from is one it reaches
FaultReached(path, fault) ==
    CASE fault = "none" -> TRUE
      [] fault = "path" -> path # nullptr
      [] OTHER -> path \in FileNames /\ files[path].exists

Init ==
    /\ alive = "none"
    /\ m_dict = Null
    /\ m_path = ""
    /\ m_isOk = TRUE
    /\ m_writeOnDel = FALSE
    /\ files \in InitialFiles
    /\ last = NoCall
    /\ nops = 0
    /\ ThreadsIdle
    /\ app = NoApp

(***************************************************************************)
(* The calls.                                                              *)
(***************************************************************************)
Construct(path, writedest, fault) ==
    /\ alive = "none"
    /\ FaultReached(path, fault)
    /\ LET c == Configuration(path, writedest, fault)
       IN /\ m_dict' = c.m_dict
          /\ m_path' = c.m_path
          /\ m_isOk' = c.m_isOk
          /\ m_writeOnDel' = c.m_writeOnDel
    /\ alive' = "live"
    /\ last' = [Call("Configuration") EXCEPT !.file = path, !.flag = writedest,
                                           !.fault = fault]
    /\ UNCHANGED <<app, files, nops, threads>>

Destroy(fault) ==
    /\ alive = "live"
    /\ files' = Destructor(fault)
    /\ alive' = "dead"
    /\ last' = [Call("~Configuration") EXCEPT !.fault = IF fault THEN "io" ELSE "none"]
    /\ UNCHANGED <<app, store, nops, threads>>

CallIsOk ==
    /\ alive = "live"
    /\ last' = [Call("isOk") EXCEPT !.ok = isOk]
    /\ UNCHANGED <<app, alive, store, files, nops, threads>>

\* a getValue that looks the node up with the operator[] that inserts it
CallGetValue_Inserts(path) ==
    /\ alive = "live"
    /\ last' = [Call("getValue") EXCEPT !.ptr = path, !.value = getValue(path)]
    /\ m_dict' = IF m_isOk /\ getValue(path) = Discarded
                 THEN AssignPointer(JsonPointer(path), Null).m_dict
                 ELSE m_dict
    /\ UNCHANGED <<app, alive, m_path, m_isOk, m_writeOnDel, files, nops, threads>>

CallGetValue(path) ==
    /\ alive = "live"
    /\ last' = [Call("getValue") EXCEPT !.ptr = path, !.value = getValue(path)]
    /\ UNCHANGED <<app, alive, store, files, nops, threads>>

\* a setValue whose handler marks the store unhealthy
CallSetValue_FaultInvalidates(path, val) ==
    /\ alive = "live"
    /\ nops < MaxOps
    /\ m_dict' = setValue(path, val).m_dict
    /\ m_isOk' = (m_isOk /\ ~setValue(path, val).caught)
    /\ nops' = nops + 1
    /\ last' = [Call("setValue") EXCEPT !.ptr = path, !.val = val,
                                      !.caught = setValue(path, val).caught]
    /\ UNCHANGED <<app, alive, m_path, m_writeOnDel, files, threads>>

CallSetValue(path, val) ==
    /\ alive = "live"
    /\ nops < MaxOps
    /\ m_dict' = setValue(path, val).m_dict
    /\ nops' = nops + 1
    /\ last' = [Call("setValue") EXCEPT !.ptr = path, !.val = val,
                                      !.caught = setValue(path, val).caught]
    /\ UNCHANGED <<app, alive, m_path, m_isOk, m_writeOnDel, files, threads>>

CallWriteToString(pretty) ==
    /\ alive = "live"
    /\ last' = [Call("writeToString") EXCEPT !.flag = pretty,
                                           !.text = writeToString(pretty)]
    /\ UNCHANGED <<app, alive, store, files, nops, threads>>

\* a writeToFile that keeps the path it was given as the new m_path
CallWriteToFile_AdoptsPath(path, append, fault) ==
    /\ alive = "live"
    /\ nops < MaxOps
    /\ LET w == writeToFile(path, append, fault)
       IN /\ files' = w.files
          /\ last' = [Call("writeToFile") EXCEPT !.file = path, !.flag = append,
                                               !.fault = IF fault THEN "io" ELSE "none",
                                               !.code = w.code]
    /\ nops' = nops + 1
    /\ m_path' = IF path = nullptr THEN m_path ELSE path
    /\ UNCHANGED <<app, alive, m_dict, m_isOk, m_writeOnDel, threads>>

CallWriteToFile(path, append, fault) ==
    /\ alive = "live"
    /\ nops < MaxOps
    /\ LET w == writeToFile(path, append, fault)
       IN /\ files' = w.files
          /\ last' = [Call("writeToFile") EXCEPT !.file = path, !.flag = append,
                                               !.fault = IF fault THEN "io" ELSE "none",
                                               !.code = w.code]
    /\ nops' = nops + 1
    /\ UNCHANGED <<app, alive, store, threads>>

CallReset ==
    /\ alive = "live"
    /\ nops < MaxOps
    /\ m_dict' = reset.m_dict
    /\ m_isOk' = reset.m_isOk
    /\ nops' = nops + 1
    /\ last' = Call("reset")
    /\ UNCHANGED <<app, alive, m_path, m_writeOnDel, files, threads>>

Next ==
    \/ \E path \in CtorPaths, writedest \in BOOLEAN, fault \in Faults :
          Construct(path, writedest, fault)
    \/ \E fault \in BOOLEAN : Destroy(fault)
    \/ CallIsOk
    \/ \E path \in Pointers : CallGetValue(path)
    \/ \E path \in Pointers, val \in Values : CallSetValue(path, val)
    \/ \E pretty \in BOOLEAN : CallWriteToString(pretty)
    \/ \E path \in WritePaths, append \in BOOLEAN, fault \in BOOLEAN :
          CallWriteToFile(path, append, fault)
    \/ CallReset

Spec == Init /\ [][Next]_vars

(***************************************************************************)
(* setValue on its own: one store, built without a file or from cfg.json,  *)
(* and paths that make operator[](json_pointer) create nodes, extend       *)
(* arrays and throw part of the way.                                       *)
(***************************************************************************)
WalkPointers ==
    { <<"/", "a">>, <<"/", "a", "/", "0">>, <<"/", "a", "/", "1">>,
      <<"/", "a", "/", "-">>, <<"/", "a", "/", "0", "1">>, <<"/", "a", "/", "b">>,
      <<"/", "a", "/", "b", "/", "c">>, <<"/", "0", "/", "b">>, <<"a">> }

NextPaths ==
    \/ \E path \in {nullptr, "cfg.json"} : Construct(path, FALSE, "none")
    \/ \E path \in WalkPointers : CallGetValue(path)
    \/ \E path \in WalkPointers, val \in {Num(1)} : CallSetValue(path, val)
    \/ CallReset

SpecPaths == Init /\ [][NextPaths]_vars

(***************************************************************************)
(* The application (src/application.cpp, src/main.cpp): main constructs    *)
(* the Application, whose member m_cfg is the store read from the global   *)
(* configuration file with writedest set, calls run() and returns what it  *)
(* returns; the members are destroyed on the way out.                      *)
(***************************************************************************)
\* the key the application reads the path of its main logfile from, a value
\* for it, and a configuration file holding the two
LogfilePointer == <<"/", "l", "o", "g", "f", "i", "l", "e">>

LogfileValue == Str(<<"l", "o", "g", ".", "t", "x", "t">>)

LogfileText ==
    <<"{", "\"", "l", "o", "g", "f", "i", "l", "e", "\"", ":",
      "\"", "l", "o", "g", ".", "t", "x", "t", "\"", "}">>

\* path to the global config file, "data/config.json": the name the model's
\* file system has for it
gl_glcfgpath == "cfg.json"

\* the global configuration file main may find
AppFiles ==
    {[n \in FileNames |-> IF n = gl_glcfgpath THEN c ELSE File(<<"x">>)] :
        c \in {NoFile} \cup {File(t) : t \in ConfigTexts \cup {LogfileText}}}

InitApp ==
    /\ alive = "none"
    /\ m_dict = Null
    /\ m_path = ""
    /\ m_isOk = TRUE
    /\ m_writeOnDel = FALSE
    /\ files \in AppFiles
    /\ last = NoCall
    /\ nops = 0
    /\ ThreadsIdle
    /\ app = NoApp

\* QCoreApplication::exit(returnCode): quitNow is set and every event loop
\* that is running is told to exit with returnCode; when none is running
\* there is no loop to tell
QApplication_exit(a, returnCode) ==
    IF a.pc = "exec" THEN [a EXCEPT !.quitNow = TRUE, !.loopCode = returnCode]
    ELSE [a EXCEPT !.quitNow = TRUE]

\* QCoreApplication::exec(): quitNow is cleared and a new event loop is entered
QApplication_exec(a) == [a EXCEPT !.quitNow = FALSE, !.loopCode = "none", !.pc = "exec"]

\* internal::RetrieveGlobalLoggerSinks(logfile): the number of sinks it
\* returns, 0 standing for { nullptr, 0 }; fault is an exception thrown while
\* the sinks are created
RetrieveGlobalLoggerSinks(logfile, fault) ==
    IF logfile = <<>> THEN 0 ELSE IF fault THEN 0 ELSE 2

\* sdk::InitializeInstanceLoggers(nsinks, sinks)
InitializeInstanceLoggers(nsinks) == TRUE

\* the body of Application::Application, m_cfg being constructed: ok is
\* m_cfg.isOk(), logfile the text JSONCVT::to read from "/logfile"
ApplicationBody(a, ok, logfile, fault) ==
    IF ~ok THEN [QApplication_exit(a, "CriticalResource") EXCEPT !.pc = "constructed"]
    ELSE LET len == RetrieveGlobalLoggerSinks(logfile, fault)
         IN IF len = 0 \/ ~InitializeInstanceLoggers(len)
            THEN [QApplication_exit(a, "CriticalComponent") EXCEPT !.pc = "constructed"]
            ELSE [a EXCEPT !.pc = "constructed", !.loggers = TRUE]

\* main: suzu::Application app(argc, argv)
Application(fault, sinkFault) ==
    /\ app.pc = "main"
    /\ alive = "none"
    /\ FaultReached(gl_glcfgpath, fault)
    /\ LET c == Configuration(gl_glcfgpath, TRUE, fault)
       IN /\ m_dict' = c.m_dict
          /\ m_path' = c.m_path
          /\ m_isOk' = c.m_isOk
          /\ m_writeOnDel' = c.m_writeOnDel
    /\ alive' = "live"
    /\ last' = [Call("Configuration") EXCEPT !.file = gl_glcfgpath, !.flag = TRUE,
                                           !.fault = fault]
    /\ app' = ApplicationBody(app, isOk',
                  to("std::string", getValue(LogfilePointer)', Host("std::string", <<>>)).v,
                  sinkFault)
    /\ UNCHANGED <<files, nops, threads>>

\* Application::initialize
initialize(a) == [a EXCEPT !.m_wnd = "Window"]

\* main: return app.run(), up to the event loop run() enters
run ==
    /\ app.pc = "constructed"
    /\ app' = QApplication_exec(initialize(app))
    /\ UNCHANGED <<alive, store, files, last, nops, threads>>

\* Application::notify for the event that triggers Window::on_actionExit_triggered,
\* which throws: choice is the button of the message box the user presses
notify(choice) ==
    /\ app.pc = "exec"
    /\ ~app.quitNow
    /\ app' = IF choice = "Abort" THEN QApplication_exit(app, "CriticalError") ELSE app
    /\ UNCHANGED <<alive, store, files, last, nops, threads>>

\* the user closes the main window: the last window closed ends the event loop
\* with 0 (QGuiApplication::quitOnLastWindowClosed)
CloseWindow ==
    /\ app.pc = "exec"
    /\ ~app.quitNow
    /\ app' = QApplication_exit(app, "Ok")
    /\ UNCHANGED <<alive, store, files, last, nops, threads>>

\* the event loop has been told to exit: exec and run return its code, main
\* returns it, and app is destroyed with its member m_cfg
ReturnFromMain(fault) ==
    /\ app.pc = "exec"
    /\ app.quitNow
    /\ files' = Destructor(fault)
    /\ alive' = "dead"
    /\ last' = [Call("~Configuration") EXCEPT !.fault = IF fault THEN "io" ELSE "none"]
    /\ app' = [app EXCEPT !.pc = "returned", !.status = app.loopCode]
    /\ UNCHANGED <<store, nops, threads>>

NextApp ==
    \/ \E fault \in Faults, sinkFault \in BOOLEAN : Application(fault, sinkFault)
    \/ run
    \/ \E choice \in {"Ignore", "Abort"} : notify(choice)
    \/ CloseWindow
    \/ \E fault \in BOOLEAN : ReturnFromMain(fault)

SpecApp == InitApp /\ [][NextApp]_vars

(***************************************************************************)
(* The converter on its own: a JSON value is at hand, and to and from are   *)
(* applied to it and to host values.                                       *)
(***************************************************************************)
InitConvert ==
    /\ alive = "none"
    /\ m_dict = Null
    /\ m_path = ""
    /\ m_isOk = TRUE
    /\ m_writeOnDel = FALSE
    /\ files = [n \in FileNames |-> NoFile]
    /\ \E val \in ConvertValues : last = [NoCall EXCEPT !.op = "JSON", !.val = val]
    /\ nops = 0
    /\ ThreadsIdle
    /\ app = NoApp

\* JSONCVT::to<TargetVal>(val, fallback) on the JSON value at hand
CallTo(TargetVal, fallback) ==
    /\ last' = [NoCall EXCEPT !.op = "to", !.val = last.val, !.target = TargetVal,
                              !.fallback = fallback,
                              !.result = to(TargetVal, last.val, fallback)]
    /\ UNCHANGED <<app, alive, store, files, nops, threads>>

\* JSONCVT::from<SourceVal>(val): its result is the JSON value at hand next
CallFrom(val) ==
    /\ last' = [NoCall EXCEPT !.op = "from", !.val = from(val), !.target = val.t]
    /\ UNCHANGED <<app, alive, store, files, nops, threads>>

NextConvert ==
    \/ \E TargetVal \in TargetTypes : \E fallback \in HostValues(TargetVal) :
          CallTo(TargetVal, fallback)
    \/ \E SourceVal \in SourceTypes : \E val \in HostValues(SourceVal) : CallFrom(val)

SpecConvert == InitConvert /\ [][NextConvert]_vars

(***************************************************************************)
(* The constructed store shared by threads.  A method is a sequence of      *)
(* steps: taking m_lock, the statements under it, and the return, which     *)
(* releases it.  Faults of the file write are left to the calls above.      *)
(***************************************************************************)
\* calls the threads make on the store, all threads together
MaxCalls == 3

\* JSON pointers the threads hand to getValue and setValue: "" and "/a/b"
ThreadPointers == { <<>>, <<"/", "a", "/", "b">> }

\* the value the threads hand to setValue
ThreadValues == {Num(1)}

\* the file name the threads hand to writeToFile
ThreadFiles == {"out.json"}

\* the value a caller assigns to an object getValue handed it
EditedValue == Bool(TRUE)

\* the places at which a thread holds m_lock for writing
WriteSection == {"s_resolve", "s_assign", "s_ret", "r_dict", "r_flag", "r_ret"}

\* the places at which a thread holds m_lock for reading
ReadSection == {"g_read", "g_ret", "t_dump", "t_ret", "f_check", "f_ser", "f_write", "f_ret"}

\* the store was constructed, by one thread, before the others were given it
InitThreads ==
    /\ files = [n \in FileNames |->
                  IF n = "cfg.json"
                  THEN File(<<"{", "\"", "a", "\"", ":", "[", "0", "]", "}">>)
                  ELSE File(<<"x">>)]
    /\ \E path \in {nullptr, "cfg.json"}, fault \in {"none", "parse"} :
          /\ FaultReached(path, fault)
          /\ m_dict = Configuration(path, FALSE, fault).m_dict
          /\ m_path = Configuration(path, FALSE, fault).m_path
          /\ m_isOk = Configuration(path, FALSE, fault).m_isOk
          /\ m_writeOnDel = Configuration(path, FALSE, fault).m_writeOnDel
    /\ alive = "live"
    /\ last = NoCall
    /\ nops = 0
    /\ m_lock = Unlocked
    /\ pc = [t \in Threads |-> "idle"]
    /\ frame = [t \in Threads |-> NoFrame]
    /\ versions = <<[m_dict |-> m_dict, m_isOk |-> m_isOk]>>
    /\ app = NoApp

\* thread t calls a method: f holds its arguments, place is where it stands next
Enter(t, place, f) ==
    /\ alive = "live"
    /\ pc[t] = "idle"
    /\ nops < MaxCalls
    /\ nops' = nops + 1
    /\ pc' = [pc EXCEPT ![t] = place]
    /\ frame' = [frame EXCEPT ![t] = f]
    /\ UNCHANGED <<app, alive, store, files, last, m_lock, versions>>

\* thread t moves on to place with the locals f; the store is as it was
Step(t, place, f) ==
    /\ pc' = [pc EXCEPT ![t] = place]
    /\ frame' = [frame EXCEPT ![t] = f]
    /\ UNCHANGED <<app, alive, store, files, last, nops, m_lock, versions>>

BeginGetValue(t, path) ==
    /\ path \in ThreadPointers
    /\ Enter(t, "g_lock", [NoFrame EXCEPT !.op = "getValue", !.path = path])

BeginSetValue(t, path, val) ==
    /\ path \in ThreadPointers
    /\ Enter(t, "s_lock", [NoFrame EXCEPT !.op = "setValue", !.path = path, !.val = val])

BeginWriteToString(t, pretty) ==
    /\ pretty \in BOOLEAN
    /\ Enter(t, "t_lock", [NoFrame EXCEPT !.op = "writeToString", !.pretty = pretty])

\* writeToFile returns InvalidParameter before it takes the lock when path is nullptr
BeginWriteToFile(t, path) ==
    /\ path \in ThreadFiles
    /\ Enter(t, IF path = nullptr THEN "idle" ELSE "f_lock",
             [NoFrame EXCEPT !.op = "writeToFile", !.file = path,
                             !.code = IF path = nullptr THEN "InvalidParameter" ELSE "Ok"])

BeginReset(t) ==
    /\ t \in Threads
    /\ Enter(t, "r_lock", [NoFrame EXCEPT !.op = "reset"])

\* the read methods going on without a QReadLocker
LockForRead_NoLocker(t) ==
    /\ pc[t] \in {"g_lock", "t_lock", "f_lock"}
    /\ pc' = [pc EXCEPT ![t] = CASE pc[t] = "g_lock" -> "g_read"
                                  [] pc[t] = "t_lock" -> "t_dump"
                                  [] pc[t] = "f_lock" -> "f_check"]
    /\ UNCHANGED <<app, alive, store, files, last, nops, m_lock, frame, versions>>

\* QReadLocker lock(&m_lock) in getValue, writeToString and writeToFile
LockForRead(t) ==
    /\ pc[t] \in {"g_lock", "t_lock", "f_lock"}
    /\ CanLockForRead(t)
    /\ m_lock' = LockedForRead(t)
    /\ pc' = [pc EXCEPT ![t] = CASE pc[t] = "g_lock" -> "g_read"
                                  [] pc[t] = "t_lock" -> "t_dump"
                                  [] pc[t] = "f_lock" -> "f_check"]
    /\ UNCHANGED <<app, alive, store, files, last, nops, frame, versions>>

\* setValue and reset with a QReadLocker in the place of the QWriteLocker
LockForWrite_Shared(t) ==
    /\ pc[t] \in {"s_lock", "r_lock"}
    /\ CanLockForRead(t)
    /\ m_lock' = LockedForRead(t)
    /\ pc' = [pc EXCEPT ![t] = IF pc[t] = "s_lock" THEN "s_resolve" ELSE "r_dict"]
    /\ UNCHANGED <<app, alive, store, files, last, nops, frame, versions>>

\* QWriteLocker lock(&m_lock) in setValue and reset, granted
LockForWrite(t) ==
    /\ pc[t] \in {"s_lock", "r_lock"}
    /\ CanLockForWrite(t)
    /\ m_lock' = LockedForWrite(t)
    /\ pc' = [pc EXCEPT ![t] = IF pc[t] = "s_lock" THEN "s_resolve" ELSE "r_dict"]
    /\ UNCHANGED <<app, alive, store, files, last, nops, frame, versions>>

\* QWriteLocker lock(&m_lock) in setValue and reset, blocking
WaitForWrite(t) ==
    /\ pc[t] \in {"s_lock", "r_lock"}
    /\ ~CanLockForWrite(t)
    /\ t \notin m_lock.waiting
    /\ m_lock' = WaitingForWrite(t)
    /\ UNCHANGED <<app, alive, store, files, last, nops, pc, frame, versions>>

\* getValue under the lock: the pointer, the tests, and the copy it returns
GetValueRead(t) ==
    /\ pc[t] = "g_read"
    /\ Step(t, "g_ret", [frame[t] EXCEPT !.value = Returned(frame[t].path, getValue(frame[t].path)),
                                         !.seen = getValue(frame[t].path)])

\* writeToString under the lock
ToStringDump(t) ==
    /\ pc[t] = "t_dump"
    /\ Step(t, "t_ret", [frame[t] EXCEPT !.text = writeToString(frame[t].pretty)])

\* setValue under the lock: the test of m_isOk, the pointer, and m_dict[ptr],
\* which creates the nodes on the way, the last one null; an exception leaves
\* what was created and ends the call
SetValueResolve(t) ==
    /\ pc[t] = "s_resolve"
    /\ LET ptr == JsonPointer(frame[t].path)
           found == ptr.ok /\ Contains(m_dict, ptr.toks)
           made == AssignPointer(ptr, Null)
       IN /\ m_dict' = IF ~m_isOk \/ found THEN m_dict ELSE made.m_dict
          /\ pc' = [pc EXCEPT ![t] = IF ~m_isOk \/ (~found /\ made.caught)
                                      THEN "s_ret" ELSE "s_assign"]
    /\ UNCHANGED <<app, alive, m_path, m_isOk, m_writeOnDel, files, last, nops, m_lock,
                   frame, versions>>

\* setValue under the lock: the assignment of val to the node
SetValueAssign(t) ==
    /\ pc[t] = "s_assign"
    /\ m_dict' = AssignPointer(JsonPointer(frame[t].path), frame[t].val).m_dict
    /\ pc' = [pc EXCEPT ![t] = "s_ret"]
    /\ UNCHANGED <<app, alive, m_path, m_isOk, m_writeOnDel, files, last, nops, m_lock,
                   frame, versions>>

\* reset under the lock: m_dict = JSON::parse("{}", ...)
ResetDict(t) ==
    /\ pc[t] = "r_dict"
    /\ m_dict' = reset.m_dict
    /\ pc' = [pc EXCEPT ![t] = "r_flag"]
    /\ UNCHANGED <<app, alive, m_path, m_isOk, m_writeOnDel, files, last, nops, m_lock,
                   frame, versions>>

\* reset under the lock: m_isOk = true
ResetFlag(t) ==
    /\ pc[t] = "r_flag"
    /\ m_isOk' = reset.m_isOk
    /\ pc' = [pc EXCEPT ![t] = "r_ret"]
    /\ UNCHANGED <<app, alive, m_dict, m_path, m_writeOnDel, files, last, nops, m_lock,
                   frame, versions>>

\* writeToFile under the lock: the test of m_isOk
ToFileCheck(t) ==
    /\ pc[t] = "f_check"
    /\ Step(t, IF m_isOk THEN "f_ser" ELSE "f_ret",
            [frame[t] EXCEPT !.code = IF m_isOk THEN "Ok" ELSE "InvalidState"])

\* writeToFile with the QReadLocker in a scope that ends before the file is written
ToFileSerialize_Unlocks(t) ==
    /\ pc[t] = "f_ser"
    /\ CanLockForRead(t)
    /\ m_lock' = UnlockedBy(t)
    /\ pc' = [pc EXCEPT ![t] = "f_write"]
    /\ frame' = [frame EXCEPT ![t].text = writeToString(FALSE)]
    /\ UNCHANGED <<app, alive, store, files, last, nops, versions>>

\* writeToFile under the lock: serjson = writeToString(false), which takes the
\* lock for reading once more and gives it back
ToFileSerialize(t) ==
    /\ pc[t] = "f_ser"
    /\ CanLockForRead(t)
    /\ Step(t, "f_write", [frame[t] EXCEPT !.text = writeToString(FALSE)])

\* writeToFile under the lock: util::WriteFile(path, serjson.c_str(), serjson.length())
ToFileWrite(t) ==
    /\ pc[t] = "f_write"
    /\ LET w == WriteFile(frame[t].file, frame[t].text, Len(frame[t].text),
                          FALSE, FALSE, FALSE)
       IN /\ files' = w.files
          /\ frame' = [frame EXCEPT ![t].code = w.code]
    /\ pc' = [pc EXCEPT ![t] = "f_ret"]
    /\ UNCHANGED <<app, alive, store, last, nops, m_lock, versions>>

\* the method returns: the locker gives the lock back and the local serjson is
\* gone; a write is complete
Return(t) ==
    /\ pc[t] \in {"g_ret", "t_ret", "f_ret", "s_ret", "r_ret"}
    /\ m_lock' = UnlockedBy(t)
    /\ pc' = [pc EXCEPT ![t] = "idle"]
    /\ frame' = [frame EXCEPT ![t].text = IF pc[t] = "f_ret" THEN <<>> ELSE @]
    /\ versions' = IF pc[t] \in {"s_ret", "r_ret"}
                   THEN Append(versions, [m_dict |-> m_dict, m_isOk |-> m_isOk])
                   ELSE versions
    /\ UNCHANGED <<app, alive, store, files, last, nops>>

\* the caller assigns a value to the object getValue handed it: to its own
\* copy, or through the reference into m_dict
CallerEdits(t) ==
    /\ pc[t] = "idle"
    /\ frame[t].op = "getValue"
    /\ ~frame[t].edited
    /\ m_dict' = IF frame[t].value.ref
                 THEN AssignPointer(JsonPointer(frame[t].value.ptr), EditedValue).m_dict
                 ELSE m_dict
    /\ frame' = [frame EXCEPT ![t].value.v = EditedValue, ![t].edited = TRUE]
    /\ UNCHANGED <<app, alive, m_path, m_isOk, m_writeOnDel, files, last, nops, m_lock, pc,
                   versions>>

NextThreads ==
    \E t \in Threads :
        \/ \E path \in ThreadPointers : BeginGetValue(t, path)
        \/ \E path \in ThreadPointers, val \in ThreadValues : BeginSetValue(t, path, val)
        \/ \E pretty \in {FALSE} : BeginWriteToString(t, pretty)
        \/ \E path \in ThreadFiles : BeginWriteToFile(t, path)
        \/ BeginReset(t)
        \/ LockForRead(t)
        \/ LockForWrite(t)
        \/ WaitForWrite(t)
        \/ GetValueRead(t)
        \/ ToStringDump(t)
        \/ SetValueResolve(t)
        \/ SetValueAssign(t)
        \/ ResetDict(t)
        \/ ResetFlag(t)
        \/ ToFileCheck(t)
        \/ ToFileSerialize(t)
        \/ ToFileWrite(t)
        \/ Return(t)
        \/ CallerEdits(t)

SpecThreads == InitThreads /\ [][NextThreads]_vars

\* a step of thread t inside a call it has made: taking a lock, the work under
\* it, or the return
Proceed(t) ==
    \/ LockForRead(t)
    \/ LockForWrite(t)
    \/ WaitForWrite(t)
    \/ GetValueRead(t)
    \/ ToStringDump(t)
    \/ SetValueResolve(t)
    \/ SetValueAssign(t)
    \/ ResetDict(t)
    \/ ResetFlag(t)
    \/ ToFileCheck(t)
    \/ ToFileSerialize(t)
    \/ ToFileWrite(t)
    \/ Return(t)

\* progress is checked for calls on the whole document: which node a call is
\* about has no part in what it locks
NextFair ==
    \E t \in Threads :
        \/ \E path \in {<<>>} : BeginGetValue(t, path)
        \/ \E path \in {<<>>}, val \in ThreadValues : BeginSetValue(t, path, val)
        \/ \E pretty \in {FALSE} : BeginWriteToString(t, pretty)
        \/ \E path \in ThreadFiles : BeginWriteToFile(t, path)
        \/ BeginReset(t)
        \/ Proceed(t)

\* the threads are scheduled fairly: a thread that can go on inside its call
\* does go on; whether it makes another call is up to it
SpecThreadsFair ==
    InitThreads /\ [][NextFair]_vars /\ \A t \in Threads : WF_vars(Proceed(t))

(***************************************************************************)
(* isOk called by threads while others write.  isOk takes no lock: its     *)
(* read of m_isOk is not ordered with reset's assignment to it, and a read *)
(* made while that assignment is under way returns the flag as it was or   *)
(* as reset leaves it.                                                     *)
(***************************************************************************)
BeginIsOk(t) ==
    /\ t \in Threads
    /\ Enter(t, "o_read", [NoFrame EXCEPT !.op = "isOk"])

\* return m_isOk
IsOkRead(t) ==
    /\ pc[t] = "o_read"
    /\ \E ok \in (IF \E u \in Threads \ {t} : pc[u] = "r_flag"
                  THEN {m_isOk, reset.m_isOk}
                  ELSE {m_isOk}) :
          Step(t, "idle", [frame[t] EXCEPT !.seen = Bool(ok)])

NextIsOk ==
    \E t \in Threads :
        \/ BeginIsOk(t)
        \/ IsOkRead(t)
        \/ \E path \in ThreadPointers, val \in ThreadValues : BeginSetValue(t, path, val)
        \/ BeginReset(t)
        \/ LockForWrite(t)
        \/ WaitForWrite(t)
        \/ SetValueResolve(t)
        \/ SetValueAssign(t)
        \/ ResetDict(t)
        \/ ResetFlag(t)
        \/ Return(t)

SpecIsOk == InitThreads /\ [][NextIsOk]_vars

(***************************************************************************)
(* Properties.                                                             *)
(***************************************************************************)
\* a walk of the tokens from node meets the token "-" at an array
RECURSIVE DashAtArray(_, _)
DashAtArray(node, toks) ==
    IF toks = <<>> THEN FALSE
    ELSE CASE node.k = "array" ->
                \/ Head(toks) = <<"-">>
                \/ /\ ValidIndex(Head(toks))
                   /\ ArrayIndex(Head(toks)) < Len(node.v)
                   /\ DashAtArray(node.v[ArrayIndex(Head(toks)) + 1], Tail(toks))
           [] node.k = "object" ->
                /\ Head(toks) \in DOMAIN node.v
                /\ DashAtArray(node.v[Head(toks)], Tail(toks))
           [] OTHER -> FALSE

\* C1 as stated: on a healthy store, for every path P and value V, getValue(P)
\* right after setValue(P, V) returns a value equal to V.
C1_RoundTripEveryPath ==
    (last.op = "setValue" /\ last.healthy) => JsonEq(getValue(last.ptr), last.val)

\* C1 amended: on a healthy store, when setValue(P, V) runs to its end without
\* an exception, no segment "-" of P addresses an array and V holds no discarded
\* value, getValue(P) right after it returns a value equal to V.
C1_RoundTrip ==
    ( /\ last.op = "setValue"
      /\ last.healthy
      /\ ~last.caught
      /\ ~DashAtArray(m_dict, JsonPointer(last.ptr).toks)
      /\ ~HasDiscarded(last.val) )
    => JsonEq(getValue(last.ptr), last.val)

\* a value was stored two levels below the root of a healthy store
C1_Witness ==
    /\ last.op = "setValue"
    /\ last.healthy
    /\ ~last.caught
    /\ Len(JsonPointer(last.ptr).toks) = 2
    /\ ~DashAtArray(m_dict, JsonPointer(last.ptr).toks)
    /\ ~HasDiscarded(last.val)

\* C2: on an unhealthy store getValue returns the discarded sentinel for every
\* path, and setValue leaves the document and the health flag as they were.
C2_UnhealthyStoreIsInert ==
    [][ /\ (~m_isOk /\ last'.op = "getValue") => last'.value = gl_discval
        /\ (~m_isOk /\ last'.op = "setValue") => (m_dict' = m_dict /\ m_isOk' = m_isOk)
      ]_vars

\* getValue was called on an unhealthy store with the root path, which resolves
\* in every document
C2_Witness == ~m_isOk /\ last.op = "getValue" /\ last.ptr = <<>>

\* C3: after reset, whatever the document and the health flag were, getValue("")
\* returns an empty object and isOk returns true.
C3_ResetLeavesEmptyHealthy ==
    last.op = "reset" => (getValue(<<>>) = EmptyObject /\ isOk)

\* reset was called on an unhealthy store
C3_Witness == last.op = "reset" /\ ~last.healthy

\* C4: a store constructed with no path is healthy, getValue("") returns an
\* empty object and writeToString(false) returns the text {}.
C4_NoPathStoreIsEmptyObject ==
    (last.op = "Configuration" /\ last.file = nullptr)
    => (isOk /\ getValue(<<>>) = EmptyObject /\ writeToString(FALSE) = <<"{", "}">>)

\* C5: a store constructed from a path for which ReadFile returns a code other
\* than Ok is healthy, its document is an empty object and m_path is the path.
C5_UnreadableFileLeavesEmptyObject ==
    ( /\ last.op = "Configuration"
      /\ last.file # nullptr
      /\ last.fault \in {"none", "io"}
      /\ ReadFile(last.file, FALSE, last.fault = "io").code # "Ok" )
    => (isOk /\ m_dict = EmptyObject /\ m_path = last.file)

\* C6: a store constructed from a file that is read but does not parse is
\* healthy and its document is an empty object.
C6_ParseFailureResets ==
    ( /\ last.op = "Configuration"
      /\ last.fault = "none"
      /\ ReadFile(last.file, FALSE, FALSE).code = "Ok"
      /\ Parse(CString(ReadFile(last.file, FALSE, FALSE).result)).k = "discarded" )
    => (isOk /\ m_dict = EmptyObject)

\* the store was constructed from cfg.json holding the malformed text {
C6_Witness ==
    /\ last.op = "Configuration"
    /\ last.fault = "none"
    /\ last.file = "cfg.json"
    /\ files["cfg.json"] = File(<<"{">>)

C8_PersistResolvesTarget ==
    last.op = "writeToFile" =>
        /\ last.code = "InvalidParameter" <=> (last.file = nullptr /\ m_path = "")
        /\ (last.file = nullptr /\ last.healthy /\ m_path \in FileNames /\ last.fault = "none")
              => (last.code = "Ok" /\ files[m_path] = File(writeToString(FALSE)))

\* C9: writeToFile on an unhealthy store with a path argument or an m_path
\* returns InvalidState and leaves every file as it was.
C9_UnhealthyPersistIsInvalidState ==
    [][ (last'.op = "writeToFile" /\ ~m_isOk /\ (last'.file # nullptr \/ m_path # ""))
            => (last'.code = "InvalidState" /\ files' = files)
      ]_vars

\* C10: a writeToFile that succeeds replaces the file's content by the
\* serialization when append is false and adds the serialization after the
\* content when append is true.
C10_AppendKeepsContent ==
    [][ (last'.op = "writeToFile" /\ last'.code = "Ok")
            => files'[last'.file].data =
                  (IF last'.flag THEN files[last'.file].data ELSE <<>>) \o writeToString(FALSE)
      ]_vars

\* the pointer "/logfile", the value "log.txt" and the text {"logfile":"log.txt"}
\* C11: when writeToFile with append false returns Ok on a healthy store, the
\* target file holds exactly the dense serialization of the document; and when
\* the store was constructed with no path and "/logfile" was set to "log.txt", a
\* writeToFile to out.json that meets no fault returns Ok and leaves the text
\* {"logfile":"log.txt"} in the file.
C11_PersistWritesDenseSerialization ==
    /\ (last.op = "writeToFile" /\ last.healthy /\ ~last.flag /\ last.code = "Ok")
          => files[last.file] = File(Dump(m_dict, -1))
    /\ ( /\ last.op = "writeToFile"
         /\ last.file = "out.json"
         /\ last.fault = "none"
         /\ m_isOk
         /\ m_dict = AssignAt(Null, JsonPointer(LogfilePointer).toks, LogfileValue).doc )
          => (last.code = "Ok" /\ files["out.json"].data = LogfileText)

\* out.json holds {"logfile":"log.txt"} after a writeToFile that returned Ok
C11_Witness ==
    /\ last.op = "writeToFile"
    /\ last.healthy
    /\ ~last.flag
    /\ last.code = "Ok"
    /\ last.file = "out.json"
    /\ m_path = ""
    /\ files["out.json"] = File(LogfileText)

\* C12: the destructor writes the document of a healthy store to m_path when
\* m_writeOnDel is set and m_path is not empty (an unhealthy store then writes
\* nothing), and in every other case it leaves every file as it was; the store's
\* fields are not touched by the result.
C12_DestructorPersists ==
    [][ last'.op = "~Configuration" =>
          /\ (m_writeOnDel /\ m_path # "" /\ m_isOk /\ last'.fault = "none")
                => files' = [files EXCEPT ![m_path] = File(Dump(m_dict, -1))]
          /\ (m_writeOnDel /\ m_path # "" /\ ~m_isOk) => files' = files
          /\ ~(m_writeOnDel /\ m_path # "") => files' = files
          /\ store' = store
      ]_vars

\* a store read from cfg.json and given a second key was destroyed with
\* m_writeOnDel set, and cfg.json holds its document
C12_Witness ==
    /\ alive = "dead"
    /\ m_writeOnDel
    /\ m_path = "cfg.json"
    /\ m_isOk
    /\ last.fault = "none"
    /\ m_dict.k = "object"
    /\ Cardinality(DOMAIN m_dict.v) = 2
    /\ files["cfg.json"] = File(Dump(m_dict, -1))

\* C13: writeToString on an unhealthy store, pretty or not, returns the text {}
\* and not the serialization of m_dict.
C13_UnhealthySerializeIsEmptyObject ==
    (last.op = "writeToString" /\ ~last.healthy)
    => (last.text = <<"{", "}">> /\ last.text # Dump(m_dict, IF last.flag THEN PrettyIndent ELSE -1))

\* the pretty form was asked of an unhealthy store
C13_Witness == last.op = "writeToString" /\ ~last.healthy /\ last.flag

\* C18: no call made on a constructed store changes m_path or m_writeOnDel.
C18_PathAndFlagFixed ==
    [][ alive = "live" => (m_path' = m_path /\ m_writeOnDel' = m_writeOnDel) ]_vars

\* a store with the path cfg.json wrote itself to out.json
C18_Witness ==
    /\ last.op = "writeToFile"
    /\ last.file = "out.json"
    /\ last.code = "Ok"
    /\ m_path = "cfg.json"
    /\ m_writeOnDel

\* C17: to<T>(val, fallback) returns fallback when the kind of val is not the
\* kind of T: for int32_t and int64_t when val is a string, a boolean, null, an
\* object, an array, a floating number (or discarded); for float and double when
\* val is an integer (or any other value that is not floating); for std::string
\* when val is not a string.
C17_NarrowKindMismatch ==
    last.op = "to" =>
        /\ ( /\ last.target \in {"int32_t", "int64_t"}
             /\ last.val.k \in {"string", "boolean", "null", "object", "array",
                                 "number_float", "discarded"} )
              => last.result = last.fallback
        /\ (last.target \in {"float", "double"} /\ last.val.k # "number_float")
              => last.result = last.fallback
        /\ (last.target = "std::string" /\ last.val.k # "string")
              => last.result = last.fallback

\* the string "7" narrowed to int32_t with fallback -1 gave -1
C17_Witness ==
    /\ last.op = "to"
    /\ last.val = Str(<<"7">>)
    /\ last.target = "int32_t"
    /\ last.fallback = Host("int32_t", -1)
    /\ last.result = Host("int32_t", -1)

\* what getValue(path) returns on the document and flag of ver
ValueIn(ver, path) ==
    IF ~JsonPointer(path).ok \/ ~ver.m_isOk \/ ~Contains(ver.m_dict, JsonPointer(path).toks)
    THEN Discarded
    ELSE GetUnchecked(ver.m_dict, JsonPointer(path).toks)

\* what writeToString(pretty) returns on the document and flag of ver
TextIn(ver, pretty) ==
    IF ~ver.m_isOk THEN <<"{", "}">> ELSE Dump(ver.m_dict, IF pretty THEN PrettyIndent ELSE -1)

\* the document setValue(path, val) leaves when it runs alone on ver
SetValueOn(ver, path, val) ==
    IF ~ver.m_isOk \/ ~JsonPointer(path).ok THEN ver.m_dict
    ELSE AssignAt(ver.m_dict, JsonPointer(path).toks, val).doc

\* the document and flag the last complete write left
Current == versions[Len(versions)]

\* C14: at most one thread is in the write-locked section of setValue or reset,
\* and while one is, no other thread is in the read-locked section of getValue,
\* writeToString or writeToFile.
C14_WriterExcludesAll ==
    \A t \in Threads :
        pc[t] \in WriteSection
        => \A u \in Threads \ {t} : pc[u] \notin (WriteSection \cup ReadSection)

\* getValue, writeToString and writeToFile are in their locked sections at once
C14_Witness ==
    \E t, u, w \in Threads : pc[t] = "g_ret" /\ pc[u] = "t_ret" /\ pc[w] = "f_write"

\* C15: every value getValue computes and returns is the value at its path in
\* the document as one complete write (or the construction) left it.
C15_NoTornRead ==
    \A t \in Threads :
        (frame[t].op = "getValue" /\ pc[t] \in {"g_ret", "idle"})
        => \E k \in 1..Len(versions) : frame[t].seen = ValueIn(versions[k], frame[t].path)

\* a getValue of the whole document returned an object while another thread
\* stands before the write lock, a setValue already complete
C15_Witness ==
    \E t, u \in Threads :
        /\ frame[t].op = "getValue"
        /\ pc[t] = "g_ret"
        /\ frame[t].path = <<>>
        /\ frame[t].seen.k = "object"
        /\ Len(versions) >= 2
        /\ pc[u] = "s_lock"
        /\ u \in m_lock.waiting

\* C16: an object getValue returned keeps the value it was returned with
\* whatever setValue and reset do later, and a caller assigning to it leaves
\* m_dict as it was.
C16_CopyOut ==
    [][ /\ \A t \in Threads :
              (frame'[t].op = "getValue" /\ pc'[t] = "idle")
              => Deref(frame[t].value)' =
                    (IF frame'[t].edited THEN EditedValue ELSE frame'[t].seen)
        /\ (\E t \in Threads : frame'[t].edited /\ ~frame[t].edited) => m_dict' = m_dict
      ]_vars

\* a thread holds a value it was returned, and the store no longer holds that
\* value at the path
C16_Witness ==
    \E t \in Threads :
        /\ frame[t].op = "getValue"
        /\ pc[t] = "idle"
        /\ ~frame[t].edited
        /\ frame[t].seen.k # "discarded"
        /\ frame[t].seen # getValue(frame[t].path)

\* C19: from the test of m_isOk to its return, writeToFile holds the lock for
\* reading, no thread is in the write-locked section of setValue or reset, and
\* the file it has written holds the serialization of the document as it is.
C19_PersistHoldsReadLock ==
    \A t \in Threads :
        pc[t] \in {"f_check", "f_ser", "f_write", "f_ret"}
        => /\ m_lock.readers[t] > 0
           /\ \A u \in Threads : pc[u] \notin WriteSection
           /\ (pc[t] = "f_ret" /\ frame[t].code = "Ok")
                 => files[frame[t].file] = File(Dump(m_dict, -1))

\* while one thread is about to write the file, a getValue has run to its return
\* and a third thread is blocked before the write lock
C19_Witness ==
    \E t, u, w \in Threads :
        /\ pc[t] = "f_write"
        /\ pc[u] = "g_ret"
        /\ pc[w] \in {"s_lock", "r_lock"}
        /\ w \in m_lock.waiting

\* C20: a setValue or reset about to give up the write lock has left what it
\* leaves when run alone on the result of the write before it, and a getValue or
\* writeToString under the read lock returns what the last complete write left.
C20_WritesLinearized ==
    \A t \in Threads :
        /\ pc[t] = "s_ret" =>
              /\ m_dict = SetValueOn(Current, frame[t].path, frame[t].val)
              /\ m_isOk = Current.m_isOk
        /\ pc[t] = "r_ret" => (m_dict = EmptyObject /\ m_isOk)
        /\ pc[t] = "g_ret" => frame[t].seen = ValueIn(Current, frame[t].path)
        /\ pc[t] = "t_ret" => frame[t].text = TextIn(Current, frame[t].pretty)

\* a getValue that took the lock after two writes were complete returned a
\* value the document did not hold at the start
C20_Witness ==
    \E t \in Threads :
        /\ pc[t] = "g_ret"
        /\ Len(versions) = 3
        /\ frame[t].seen.k # "discarded"
        /\ frame[t].seen # ValueIn(versions[1], frame[t].path)
        /\ frame[t].seen # ValueIn(versions[2], frame[t].path)

(***************************************************************************)
(* The walk of setValue.                                                   *)
(***************************************************************************)
\* the node a path leads to is not there, or is null
Absent(doc, toks) == ~Contains(doc, toks) \/ GetUnchecked(doc, toks).k = "null"

\* the tokens of the path of the setValue this step makes
StepTokens == JsonPointer(last'.ptr).toks

\* a segment that is all digits, or "-"
NamesElement(tok) == tok = <<"-">> \/ \A i \in 1..Len(tok) : IsDigit(tok[i])

Larger(a, b) == IF a > b THEN a ELSE b

\* C23 as stated: a setValue on a healthy store creates every absent
\* intermediate node as an object, whatever the next segment, and leaves the
\* length of every array on its way as it was.
C23_IntermediatesAreObjects ==
    [][(last'.op = "setValue" /\ m_isOk /\ JsonPointer(last'.ptr).ok) =>
          \A n \in 0..(Len(StepTokens) - 1) :
              LET q == SubSeq(StepTokens, 1, n)
              IN Contains(m_dict', q) =>
                    /\ Absent(m_dict, q) => GetUnchecked(m_dict', q).k = "object"
                    /\ (~Absent(m_dict, q) /\ GetUnchecked(m_dict, q).k = "array") =>
                          Len(GetUnchecked(m_dict', q).v) = Len(GetUnchecked(m_dict, q).v)
      ]_vars

\* C23 (amended): a setValue that completes on a healthy store creates an absent
\* (or null) intermediate node as an array when the next segment is all digits
\* or "-", and as an object otherwise; an array on its way grows by one element
\* for "-", and to the index plus one, padded with nulls, for an index past its end.
C23_IntermediatesByNextSegment ==
    [][(last'.op = "setValue" /\ m_isOk /\ ~last'.caught) =>
          \A n \in 0..(Len(StepTokens) - 1) :
              LET q == SubSeq(StepTokens, 1, n)
                  t == StepTokens[n + 1]
                  new == GetUnchecked(m_dict', q)
              IN Contains(m_dict', q) =>
                    /\ Absent(m_dict, q) =>
                          new.k = IF NamesElement(t) THEN "array" ELSE "object"
                    /\ (~Absent(m_dict, q) /\ GetUnchecked(m_dict, q).k = "array") =>
                          LET old == GetUnchecked(m_dict, q).v
                          IN /\ new.k = "array"
                             /\ Len(new.v) = IF t = <<"-">> THEN Len(old) + 1
                                             ELSE Larger(Len(old), ArrayIndex(t) + 1)
                             /\ \A i \in (Len(old) + 1)..(Len(new.v) - 1) : new.v[i] = Null
      ]_vars

\* setValue("/a/1", 1) has created the array a, with a null before the element it set
C23_Witness ==
    /\ last.op = "setValue"
    /\ last.ptr = <<"/", "a", "/", "1">>
    /\ ~last.caught
    /\ m_dict = Obj(ObjPut(EmptyObject.v, <<"a">>, Arr(<<Null, Num(1)>>)))

\* C24 as stated: a setValue whose handler caught an exception has left the
\* document, the health flag and the path exactly as they were.
C24_FaultIsNoOp ==
    [][(last'.op = "setValue" /\ last'.caught) =>
          (m_dict' = m_dict /\ m_isOk' = m_isOk /\ m_path' = m_path)]_vars

\* C25 as stated: while the store is healthy the document is not discarded,
\* and getValue("") does not return the discarded value.
C25_HealthyNeverDiscarded ==
    (alive = "live" /\ m_isOk) => (m_dict # Discarded /\ getValue(<<>>) # Discarded)

\* C28: a call of isOk, getValue, setValue, writeToString or writeToFile leaves
\* m_isOk as it found it, whether or not it faults, and reset leaves it true:
\* after construction the flag never goes from true to false.
C28_HealthMonotone ==
    /\ last.op \in {"isOk", "getValue", "setValue", "writeToString", "writeToFile"}
          => m_isOk = last.healthy
    /\ last.op = "reset" => m_isOk

\* a setValue on a healthy store ended in its handler, and the store is healthy
C28_Witness ==
    /\ last.op = "setValue"
    /\ last.caught
    /\ last.healthy
    /\ m_isOk

\* C29: isOk, getValue, writeToString and writeToFile leave m_dict, m_isOk,
\* m_path and m_writeOnDel as they were, whatever they return.
C29_ReadSideFrame ==
    [][last'.op \in {"isOk", "getValue", "writeToString", "writeToFile"}
          => UNCHANGED <<m_dict, m_isOk, m_path, m_writeOnDel>>]_vars

\* writeToFile was refused on an unhealthy store
C29_Witness ==
    /\ last.op = "writeToFile"
    /\ ~last.healthy
    /\ last.code = "InvalidState"
    /\ last.file = "out.json"

\* C30: a store built with writedest set from a file that could not be read
\* (the document is still null) or did not parse (the document was reset to {}),
\* and destroyed before any setValue, reset or writeToFile, has written the
\* serialization of that document over m_path: null in the first case, {} in
\* the second.
C30_FailedLoadStillPersists ==
    (/\ alive = "dead"
     /\ nops = 0
     /\ m_writeOnDel
     /\ m_path \in FileNames
     /\ m_isOk
     /\ last.fault = "none"
     /\ m_dict \in {Null, EmptyObject})
    => /\ files[m_path] = File(Dump(m_dict, -1))
       /\ files[m_path].data =
             IF m_dict = Null THEN <<"n", "u", "l", "l">> ELSE <<"{", "}">>

\* cfg.json did not parse, and the destructor has put {} in its place
C30_Witness ==
    /\ alive = "dead"
    /\ nops = 0
    /\ m_writeOnDel
    /\ m_path = "cfg.json"
    /\ m_dict = EmptyObject
    /\ files["cfg.json"] = File(<<"{", "}">>)

\* C26 as stated: once the Application constructor has built an unhealthy
\* global configuration, the main window is never created, the event loop is
\* never entered, and main returns CriticalResource.
C26_UnhealthyConfigTerminates ==
    (app.pc # "main" /\ ~m_isOk) =>
        /\ app.m_wnd = nullptr
        /\ app.pc # "exec"
        /\ app.pc = "returned" => app.status = "CriticalResource"

\* C22 as stated: no thread reads the flag in isOk while another thread is
\* inside the exclusive section of setValue or reset.
C22_IsOkExcludesWriters ==
    [][\A t \in Threads :
          (pc[t] = "o_read" /\ pc'[t] = "idle") =>
              \A u \in Threads \ {t} : pc[u] \notin WriteSection]_vars

\* C27: a writeToFile inside its file write does not keep another writeToFile
\* out: unless a writer waits for the lock, a thread about to take the read
\* lock in writeToFile is granted it while another thread writes the file, so
\* that two threads are inside the file write for the same path at once.
C27_FlushesNotSerialised ==
    \A t, u \in Threads :
        (/\ t # u
         /\ pc[t] = "f_lock"
         /\ pc[u] = "f_write"
         /\ m_lock.waiting = {})
        => CanLockForRead(t)

\* two threads of a healthy store are about to write the same file
C27_Witness ==
    \E t, u \in Threads :
        /\ t # u
        /\ m_isOk
        /\ pc[t] = "f_write"
        /\ pc[u] = "f_write"
        /\ frame[t].file = frame[u].file
        /\ m_lock.readers[t] > 0
        /\ m_lock.readers[u] > 0

\* C21: under fair scheduling every call a thread has made returns, writeToFile
\* with its second lockForRead behind a waiting writer included, and no thread
\* asks for the write lock while it holds the lock for reading.
C21_NoDeadlock ==
    /\ \A t \in Threads : (pc[t] # "idle") ~> (pc[t] = "idle")
    /\ [](\A t \in Threads : pc[t] \in {"s_lock", "r_lock"} => m_lock.readers[t] = 0)

\* a writeToFile is about to take the read lock a second time while a writer
\* waits for the lock
C21_Witness ==
    \E t, w \in Threads :
        /\ pc[t] = "f_ser"
        /\ m_lock.readers[t] > 0
        /\ pc[w] \in {"s_lock", "r_lock"}
        /\ w \in m_lock.waiting

====
